---- MODULE Spec2Model ----
(***************************************************************************)
(* A model of the plugin-facing Config object of the build engine          *)
(* (packages/core/core/src/public/Config.js) and of the JSX option         *)
(* detection that consumes it (getJSXOptions).                             *)
(*                                                                         *)
(* JavaScript values are tagged records, so that truthiness tests          *)
(* (`if (pkg && pkg[packageKey])`) and nullish tests (`x == null`) are     *)
(* computed the way the language computes them.                            *)
(***************************************************************************)
EXTENDS Integers, Sequences, FiniteSets, TLC

VARIABLES
    fs,          \* the input file system: [path -> file content]
    configs,     \* the internal Config records, by identity
    wrappers,    \* the retained PublicConfig objects, by identity (allocation order)
    table,       \* internalConfigToConfig: options -> (config -> wrapper)
    tasks,       \* the asynchronous calls in flight (getPackage / getConfigFrom)
    last,        \* observation: the most recent completed call, its result, its lookups
    hist,        \* observation: what has been asked of each Config so far
    nops         \* observation: the number of calls made so far

vars == <<fs, configs, wrappers, table, tasks, last, hist, nops>>

-----------------------------------------------------------------------------
(* Bounds of the model.                                                    *)

\* calls made in one behaviour of the sequential specification
MaxOps == 3
\* constructions of PublicConfig in one behaviour of the wrapper specification
MaxConstructions == 3
\* asynchronous calls started in one behaviour of the asynchronous specification
MaxTasks == 2

-----------------------------------------------------------------------------
(* JavaScript values.                                                      *)

Undefined == [t |-> "undefined"]
Null      == [t |-> "null"]
Bool(b)   == [t |-> "boolean", b |-> b]
Str(s)    == [t |-> "string", s |-> s]
Obj(f)    == [t |-> "object", o |-> f]

\* ToBoolean, as used by `if (x)`, `x && y`, `x || y`, `!x`
Truthy(v) ==
    CASE v.t = "undefined" -> FALSE
      [] v.t = "null"      -> FALSE
      [] v.t = "boolean"   -> v.b
      [] v.t = "string"    -> v.s /= ""
      [] OTHER             -> TRUE

\* `x == null` / `x != null`
IsNullish(v) == v = Undefined \/ v = Null

\* property read `obj[k]` on a value already known not to be nullish
Get(v, k) == IF v.t = "object" /\ k \in DOMAIN v.o THEN v.o[k] ELSE Undefined

-----------------------------------------------------------------------------
(* File paths: a directory (the names from the root down) and a file name, *)
(* the name cut in pieces whose concatenation is the name.                 *)

Path(dir, name) == [dir |-> dir, name |-> name]

PackageJson   == <<"package", ".json">>
MyPackageJson == <<"my-", "package", ".json">>
Babelrc       == <<".babelrc">>
BabelConfigJs == <<"babel.config", ".js">>

Root == <<>>
App  == <<"app">>
Src  == <<"app", "src">>

\* String.prototype.endsWith, on the file name (the suffix holds no separator)
EndsWith(name, suffix) ==
    /\ Len(name) >= Len(suffix)
    /\ SubSeq(name, Len(name) - Len(suffix) + 1, Len(name)) = suffix

\* path.extname
ExtName(p) == IF Len(p.name) > 1 THEN p.name[Len(p.name)] ELSE ""

-----------------------------------------------------------------------------
(* The input file system and loadConfig (@parcel/utils).                   *)

NoFile == [none |-> TRUE]

File(text, value) == [text |-> text, value |-> value]

\* resolveConfig: the first of `filenames` that exists in `dir`, in the order given
FirstExisting(files, dir, filenames) ==
    LET hits == {i \in 1..Len(filenames) : Path(dir, filenames[i]) \in DOMAIN files}
    IN  IF hits = {} THEN NoFile
        ELSE Path(dir, filenames[CHOOSE i \in hits : \A j \in hits : i <= j])

\* resolveConfig: search `dir`, then its parents, up to the root
RECURSIVE resolveConfig(_, _, _)
resolveConfig(files, dir, filenames) ==
    LET here == FirstExisting(files, dir, filenames)
    IN  IF here /= NoFile THEN here
        ELSE IF dir = Root THEN NoFile
        ELSE resolveConfig(files, SubSeq(dir, 1, Len(dir) - 1), filenames)

\* loadConfig, once resolveConfig has answered: null when nothing is found or the
\* file is empty; otherwise {config, files: [{filePath}]}. A .js file is required,
\* any other file is read and parsed unless opts.parse === false.
readConfig(files, configFile, opts) ==
    IF configFile = NoFile THEN Null
    ELSE IF ExtName(configFile) = ".js"
         THEN [t |-> "object", config |-> files[configFile].value,
               files |-> <<[filePath |-> configFile]>>]
    ELSE IF files[configFile].text = "" THEN Null
    ELSE [t |-> "object",
          config |-> IF ~IsNullish(opts) /\ opts.parse = Bool(FALSE)
                     THEN Str(files[configFile].text)
                     ELSE files[configFile].value,
          files |-> <<[filePath |-> configFile]>>]

\* loadConfig(fs, filepath, filenames, opts)
loadConfig(files, filepath, filenames, opts) ==
    readConfig(files, resolveConfig(files, filepath.dir, filenames), opts)

\* the file a loadConfig call resolved, whether or not it yielded a config
Resolved(files, filepath, filenames) == resolveConfig(files, filepath.dir, filenames)

-----------------------------------------------------------------------------
(* The internal Config record and the synchronous methods of PublicConfig. *)

NewConfig(searchPath, isSource) ==
    [searchPath |-> searchPath,
     isSource |-> isSource,
     resolvedPath |-> Undefined,
     includedFiles |-> {},
     devDeps |-> <<>>,
     watchGlob |-> Undefined,
     result |-> Undefined,
     resultHash |-> Undefined,
     shouldRehydrate |-> FALSE,
     shouldReload |-> FALSE,
     shouldInvalidateOnStartup |-> FALSE,
     pkg |-> Undefined]

\* the constructor without the lookup of an existing wrapper
constructor_AlwaysNew(objs, map, config, options) ==
    [wrappers |-> Append(objs, [config |-> config, options |-> options]),
     table |-> [map EXCEPT ![options][config] = Len(objs) + 1],
     ret |-> Len(objs) + 1]

\* Config.js 17-35: `new PublicConfig(config, options)`. `new` allocates the object
\* `this` (the next identity); the constructor returns the wrapper registered for
\* (options, config) when there is one, and `this` is then dropped with its fields
\* unset. 0 stands for no wrapper, [config |-> 0, ...] for a dropped object.
constructor(objs, map, config, options) ==
    LET this == Len(objs) + 1
        existing == map[options][config]
    IN  IF existing /= 0
        THEN [wrappers |-> Append(objs, [config |-> 0, options |-> 0]),
              table |-> map,
              ret |-> existing]
        ELSE [wrappers |-> Append(objs, [config |-> config, options |-> options]),
              table |-> [map EXCEPT ![options][config] = this],
              ret |-> this]

setResolvedPath(c, filePath) == [c EXCEPT !.resolvedPath = filePath]

setResult(c, result) == [c EXCEPT !.result = result]

setResultHash(c, resultHash) == [c EXCEPT !.resultHash = resultHash]

addIncludedFile(c, filePath) ==
    [c EXCEPT !.includedFiles = c.includedFiles \cup {filePath}]

\* addDevDependency that leaves the version of a name already present as it is
addDevDependency_KeepsFirst(c, name, version) ==
    LET d == c.devDeps
        at == {i \in 1..Len(d) : d[i].name = name}
    IN  [c EXCEPT !.devDeps =
            IF at = {} THEN Append(d, [name |-> name, version |-> version]) ELSE d]

\* Map.prototype.set: devDeps is kept as the sequence of its entries in insertion
\* order; setting a present key replaces its value in place
addDevDependency(c, name, version) ==
    LET d == c.devDeps
        at == {i \in 1..Len(d) : d[i].name = name}
    IN  [c EXCEPT !.devDeps =
            IF at = {} THEN Append(d, [name |-> name, version |-> version])
            ELSE [i \in 1..Len(d) |->
                    IF i \in at THEN [name |-> name, version |-> version] ELSE d[i]]]

setWatchGlob(c, glob) == [c EXCEPT !.watchGlob = glob]

shouldRehydrate(c) == [c EXCEPT !.shouldRehydrate = TRUE]

\* shouldReload setting the flag of its neighbour
shouldReload_SetsRehydrate(c) == [c EXCEPT !.shouldRehydrate = TRUE]

shouldReload(c) == [c EXCEPT !.shouldReload = TRUE]

shouldInvalidateOnStartup(c) == [c EXCEPT !.shouldInvalidateOnStartup = TRUE]

-----------------------------------------------------------------------------
(* getConfigFrom / getConfig / getPackage, run to completion without any   *)
(* other call overlapping them. Each yields the Config after the call, the *)
(* value the promise resolves to, the loadConfig calls it made, and the    *)
(* candidate file its search resolved and loaded.                          *)

Options(packageKey, parse, exclude) ==
    [t |-> "object", packageKey |-> packageKey, parse |-> parse, exclude |-> exclude]

\* one loadConfig call: where it searched, for what, the file it resolved, and
\* whether that file yielded a config
Lookup(files, searchPath, filePaths) ==
    [searchPath |-> searchPath, filePaths |-> filePaths,
     file |-> Resolved(files, searchPath, filePaths),
     loaded |-> loadConfig(files, searchPath, filePaths, Null) /= Null]

\* recordConf without the package.json clause of its test: a resolvedPath that is a
\* package descriptor is kept as the primary source
recordConf_KeepsPackageAsPrimary(c, conf, options) ==
    IF IsNullish(conf) THEN [config |-> c, ret |-> Null, found |-> NoFile]
    ELSE [config |->
            IF IsNullish(options) \/ ~Truthy(options.exclude)
            THEN IF IsNullish(c.resolvedPath)
                 THEN setResolvedPath(c, conf.files[1].filePath)
                 ELSE addIncludedFile(c, conf.files[1].filePath)
            ELSE c,
          ret |-> conf.config,
          found |-> conf.files[1].filePath]

\* recordConf without the test of options.exclude
recordConf_IgnoresExclude(c, conf, options) ==
    IF IsNullish(conf) THEN [config |-> c, ret |-> Null, found |-> NoFile]
    ELSE [config |->
            IF \/ IsNullish(c.resolvedPath)
               \/ EndsWith(c.resolvedPath.name, PackageJson)
            THEN setResolvedPath(c, conf.files[1].filePath)
            ELSE addIncludedFile(c, conf.files[1].filePath),
          ret |-> conf.config,
          found |-> conf.files[1].filePath]

\* Config.js 118-133: what follows `await loadConfig(...)`
recordConf(c, conf, options) ==
    IF IsNullish(conf) THEN [config |-> c, ret |-> Null, found |-> NoFile]
    ELSE [config |->
            IF IsNullish(options) \/ ~Truthy(options.exclude)
            THEN IF \/ IsNullish(c.resolvedPath)
                    \/ EndsWith(c.resolvedPath.name, PackageJson)
                 THEN setResolvedPath(c, conf.files[1].filePath)
                 ELSE addIncludedFile(c, conf.files[1].filePath)
            ELSE c,
          ret |-> conf.config,
          found |-> conf.files[1].filePath]

\* Config.js 111, 116: `parse == null ? null : {parse}`
loadOpts(options) ==
    IF IsNullish(options) \/ IsNullish(options.parse) THEN Null
    ELSE [t |-> "object", parse |-> options.parse]

WithLookups(r, lookups) ==
    [config |-> r.config, ret |-> r.ret, found |-> r.found, lookups |-> lookups]

\* Config.js 111-133: the search for the candidate files and its recording
loadAndRecord(c, files, searchPath, filePaths, options) ==
    WithLookups(
        recordConf(c, loadConfig(files, searchPath, filePaths, loadOpts(options)), options),
        <<Lookup(files, searchPath, filePaths)>>)

\* Config.js 152: `this.#config.pkg = await ...`
assignPkg(r) == [r EXCEPT !.config.pkg = r.ret]

\* getPackage without the test of the memoized descriptor
getPackage_NoMemo(c, files) ==
    assignPkg(loadAndRecord(c, files, c.searchPath, <<PackageJson>>, Undefined))

\* Config.js 147-154
getPackage(c, files) ==
    IF Truthy(c.pkg) THEN [config |-> c, ret |-> c.pkg, lookups |-> <<>>, found |-> NoFile]
    ELSE assignPkg(loadAndRecord(c, files, c.searchPath, <<PackageJson>>, Undefined))

\* Config.js 103: `options && options.packageKey`
packageKeyOf(options) == IF IsNullish(options) THEN options ELSE options.packageKey

\* Config.js 106: `pkg && pkg[packageKey]`
PackageHit(pkg, packageKey) == Truthy(pkg) /\ Truthy(Get(pkg, packageKey.s))

AfterLookups(lookups, r) == [r EXCEPT !.lookups = lookups \o @]

\* the rest of getConfigFrom without the early return on a package descriptor hit
afterPackage_NoShortCircuit(p, files, searchPath, filePaths, options) ==
    AfterLookups(p.lookups, loadAndRecord(p.config, files, searchPath, filePaths, options))

\* Config.js 106-133: the rest of getConfigFrom once getPackage has answered p
afterPackage(p, files, searchPath, filePaths, options) ==
    IF PackageHit(p.ret, options.packageKey)
    THEN [config |-> p.config, ret |-> Get(p.ret, options.packageKey.s),
          lookups |-> p.lookups, found |-> NoFile]
    ELSE AfterLookups(p.lookups,
                      loadAndRecord(p.config, files, searchPath, filePaths, options))

\* Config.js 94-134
getConfigFrom(c, files, searchPath, filePaths, options) ==
    IF ~IsNullish(packageKeyOf(options))
    THEN afterPackage(getPackage(c, files), files, searchPath, filePaths, options)
    ELSE loadAndRecord(c, files, searchPath, filePaths, options)

\* Config.js 136-145
getConfig(c, files, filePaths, options) ==
    getConfigFrom(c, files, c.searchPath, filePaths, options)

-----------------------------------------------------------------------------
(* getJSXOptions: the babel config for JSX, from the libraries the package *)
(* descriptor names.                                                       *)

JSX_EXTENSIONS == {".jsx", ".tsx"}

\* in the order of the keys of the object literal
JSX_PRAGMA ==
    << [lib |-> "react",    pragma |-> Str("React.createElement"), pragmaFrag |-> Str("React.Fragment")],
       [lib |-> "preact",   pragma |-> Str("h"),                   pragmaFrag |-> Str("Fragment")],
       [lib |-> "nervjs",   pragma |-> Str("Nerv.createElement"),  pragmaFrag |-> Undefined],
       [lib |-> "hyperapp", pragma |-> Str("h"),                   pragmaFrag |-> Undefined] >>

PragmaOf(lib) == JSX_PRAGMA[CHOOSE i \in 1..Len(JSX_PRAGMA) : JSX_PRAGMA[i].lib = lib]

NoLib == "(none)"

\* Array.prototype.find over Object.keys(JSX_PRAGMA)
\* `passing`: the keys the callback returns a truthy value for
FindLib(passing) ==
    LET hits == {i \in 1..Len(JSX_PRAGMA) : JSX_PRAGMA[i].lib \in passing}
    IN  IF hits = {} THEN NoLib
        ELSE JSX_PRAGMA[CHOOSE i \in hits : \A j \in hits : i <= j].lib

PresetConfig(pragma, pragmaFrag, development) ==
    [t |-> "object",
     presets |-> << <<"@babel/preset-react",
                      [pragma |-> pragma, pragmaFrag |-> pragmaFrag,
                       development |-> development]>> >>]

\* lines 45-56 with devDependencies left out of the test
reactLibOf_DependenciesOnly(pkg) ==
    IF Truthy(pkg) /\ Truthy(Get(pkg, "alias")) /\ Truthy(Get(Get(pkg, "alias"), "react"))
    THEN "react"
    ELSE LET InDeps(libName) ==
                 /\ Truthy(pkg)
                 /\ Truthy(Get(pkg, "dependencies"))
                 /\ Truthy(Get(Get(pkg, "dependencies"), libName))
         IN  FindLib({JSX_PRAGMA[i].lib : i \in {j \in 1..Len(JSX_PRAGMA) : InDeps(JSX_PRAGMA[j].lib)}})

\* lines 44-56: the library detected in the package descriptor
reactLibOf(pkg) ==
    IF Truthy(pkg) /\ Truthy(Get(pkg, "alias")) /\ Truthy(Get(Get(pkg, "alias"), "react"))
    THEN "react"
    ELSE LET InDeps(libName) ==
                 /\ Truthy(pkg)
                 /\ \/ /\ Truthy(Get(pkg, "dependencies"))
                       /\ Truthy(Get(Get(pkg, "dependencies"), libName))
                    \/ /\ Truthy(Get(pkg, "devDependencies"))
                       /\ Truthy(Get(Get(pkg, "devDependencies"), libName))
         IN  FindLib({JSX_PRAGMA[i].lib : i \in {j \in 1..Len(JSX_PRAGMA) : InDeps(JSX_PRAGMA[j].lib)}})

\* lines 58-70: the babel config for the detected library
jsxConfig(mode, c, reactLib) ==
    IF \/ Truthy(IF reactLib /= NoLib THEN PragmaOf(reactLib).pragma ELSE Undefined)
       \/ ExtName(c.searchPath) \in JSX_EXTENSIONS
    THEN PresetConfig(IF reactLib /= NoLib THEN PragmaOf(reactLib).pragma ELSE Undefined,
                      IF reactLib /= NoLib THEN PragmaOf(reactLib).pragmaFrag ELSE Undefined,
                      mode = "development")
    ELSE Undefined

\* lines 43-70: the rest of getJSXOptions once getPackage has answered p
jsxAfterPackage(mode, p) ==
    [config |-> p.config,
     ret |-> jsxConfig(mode, p.config, reactLibOf(p.ret)),
     lookups |-> p.lookups,
     packageCalls |-> 1]

\* lines 35-71. `mode` is options.mode; the result carries the Config after the
\* call and the number of calls it made to config.getPackage.
getJSXOptions(mode, c, files) ==
    IF ~c.isSource
    THEN [config |-> c, ret |-> Null, lookups |-> <<>>, packageCalls |-> 0]
    ELSE jsxAfterPackage(mode, getPackage(c, files))

-----------------------------------------------------------------------------
(* The inputs the calls are made with.                                     *)

\* the identities of the internal Config objects and of the ParcelOptions objects:
\* two of each, so that pairs can differ in either
ConfigIds == {1, 2}
OptionIds == {1, 2}

IndexJsx == <<"index", ".jsx">>
IndexTsx == <<"index", ".tsx">>
IndexJs  == <<"index", ".js">>

BabelObj == Obj([presets |-> Str("env")])
PkgWithKey  == Obj([name |-> Str("app"), babel |-> BabelObj])
PkgFalsyKey == Obj([name |-> Str("app"), babel |-> Bool(FALSE)])
PkgNoKey    == Obj([name |-> Str("app")])

PkgFile(v) == File("{package}", v)
RcFile     == File("{rc}", Obj([presets |-> Str("rc")]))
JsFile     == File("module.exports", Obj([presets |-> Str("js")]))

\* the file systems a behaviour may run on
FileSystems ==
    { \* no package descriptor at all
      (Path(App, Babelrc) :> RcFile),
      \* a descriptor with the key, next to a candidate file
      (Path(App, PackageJson) :> PkgFile(PkgWithKey)) @@ (Path(App, Babelrc) :> RcFile),
      \* the nearest descriptor holds the key with a falsy value, a farther one a truthy one
      (Path(App, PackageJson) :> PkgFile(PkgFalsyKey)) @@
      (Path(Root, PackageJson) :> PkgFile(PkgWithKey)) @@ (Path(Src, Babelrc) :> RcFile),
      \* a descriptor without the key, a .js candidate, a file whose name ends like a descriptor's
      (Path(App, PackageJson) :> PkgFile(PkgNoKey)) @@ (Path(App, BabelConfigJs) :> JsFile) @@
      (Path(Src, MyPackageJson) :> RcFile),
      \* an empty descriptor file
      (Path(App, PackageJson) :> File("", Undefined)) @@ (Path(Root, Babelrc) :> RcFile),
      \* a descriptor file that parses to a falsy value
      (Path(Root, PackageJson) :> File("false", Bool(FALSE))) @@ (Path(Src, Babelrc) :> RcFile) }

\* where getConfigFrom is asked to search from (the Config's own path is in Src)
SearchPaths == {Path(App, <<"lib", ".js">>)}

FilePathLists == {<<MyPackageJson, Babelrc, BabelConfigJs>>, <<PackageJson>>}

OptionValues ==
    { Undefined,
      Options(Undefined, Undefined, Undefined),
      Options(Str("babel"), Undefined, Undefined),
      Options(Undefined, Bool(FALSE), Undefined),
      Options(Undefined, Bool(FALSE), Bool(TRUE)),
      Options(Str("babel"), Undefined, Bool(TRUE)) }

PathArgs == {Path(App, PackageJson), Path(Src, <<"extra", ".json">>)}

PackageNames == {"foo", "bar"}
Versions == {Undefined, Str("^1.0.0")}

-----------------------------------------------------------------------------
(* State, and what is remembered of the calls made.                        *)

NoCall == [op |-> "none", lookups |-> <<>>, ret |-> Undefined]

\* `found`: the candidate file a getConfig/getConfigFrom search resolved and loaded
Call(op, w, args, ret, lookups, found) ==
    [op |-> op, w |-> w, args |-> args, ret |-> ret, lookups |-> lookups, found |-> found]

NoHist ==
    [included |-> {},      \* the paths passed to addIncludedFile
     devDeps |-> <<>>,     \* the addDevDependency calls, in order
     consulted |-> {},     \* the files the get calls resolved and loaded
     explicit |-> {},      \* the paths passed to setResolvedPath / addIncludedFile
     getsOnly |-> TRUE,    \* only get calls without exclude were made
     pkgLookups |-> 0]     \* the searches made for the package descriptor

\* the files a call's lookups resolved and loaded
Loaded(lookups) == {lookups[i].file : i \in {j \in 1..Len(lookups) : lookups[j].loaded}}

IsPackageLookup(l) == l.filePaths = <<PackageJson>>

PkgLookupsIn(lookups) == Cardinality({i \in 1..Len(lookups) : IsPackageLookup(lookups[i])})

HistAfterGet(h, r, options) ==
    [h EXCEPT !.consulted = @ \cup Loaded(r.lookups),
              !.pkgLookups = @ + PkgLookupsIn(r.lookups),
              !.getsOnly = @ /\ (IsNullish(options) \/ ~Truthy(options.exclude))]

ConfigOf(w) == wrappers[w].config

TypeOK ==
    /\ nops \in 0..MaxOps
    /\ DOMAIN configs = ConfigIds
    /\ \A w \in 1..Len(wrappers) :
          \/ wrappers[w] = [config |-> 0, options |-> 0]
          \/ wrappers[w].config \in ConfigIds /\ wrappers[w].options \in OptionIds

\* one wrapper over one fresh Config
InitOneWrapper ==
    /\ wrappers = <<[config |-> 1, options |-> 1]>>
    /\ table = [o \in OptionIds |-> [c \in ConfigIds |-> IF o = 1 /\ c = 1 THEN 1 ELSE 0]]
    /\ tasks = <<>>
    /\ last = NoCall
    /\ hist = [i \in ConfigIds |-> NoHist]
    /\ nops = 0

Init ==
    /\ fs \in FileSystems
    /\ configs = [i \in ConfigIds |-> NewConfig(Path(Src, IndexJsx), TRUE)]
    /\ InitOneWrapper

\* a synchronous method of wrapper w completes: the Config becomes c2
Done(w, c2, h2, call) ==
    /\ nops < MaxOps
    /\ nops' = nops + 1
    /\ configs' = [configs EXCEPT ![ConfigOf(w)] = c2]
    /\ hist' = [hist EXCEPT ![ConfigOf(w)] = h2]
    /\ last' = call
    /\ UNCHANGED <<fs, wrappers, table, tasks>>

Mutated(h) == [h EXCEPT !.getsOnly = FALSE]

SetResolvedPath(w, paths) ==
    \E p \in paths :
        LET c == configs[ConfigOf(w)]
            h == hist[ConfigOf(w)]
        IN  Done(w, setResolvedPath(c, p),
                 [Mutated(h) EXCEPT !.explicit = @ \cup {p}],
                 Call("setResolvedPath", w, [filePath |-> p], Undefined, <<>>, NoFile))

SetResult(w) ==
    LET c == configs[ConfigOf(w)]
    IN  Done(w, setResult(c, Str("result")), Mutated(hist[ConfigOf(w)]),
             Call("setResult", w, [result |-> Str("result")], Undefined, <<>>, NoFile))

SetResultHash(w) ==
    LET c == configs[ConfigOf(w)]
    IN  Done(w, setResultHash(c, Str("hash")), Mutated(hist[ConfigOf(w)]),
             Call("setResultHash", w, [resultHash |-> Str("hash")], Undefined, <<>>, NoFile))

AddIncludedFile(w, paths) ==
    \E p \in paths :
        LET c == configs[ConfigOf(w)]
            h == hist[ConfigOf(w)]
        IN  Done(w, addIncludedFile(c, p),
                 [Mutated(h) EXCEPT !.explicit = @ \cup {p}, !.included = @ \cup {p}],
                 Call("addIncludedFile", w, [filePath |-> p], Undefined, <<>>, NoFile))

AddDevDependency(w) ==
    \E n \in PackageNames, v \in Versions :
        LET c == configs[ConfigOf(w)]
            h == hist[ConfigOf(w)]
        IN  Done(w, addDevDependency(c, n, v),
                 [Mutated(h) EXCEPT !.devDeps = Append(@, [name |-> n, version |-> v])],
                 Call("addDevDependency", w, [name |-> n, version |-> v], Undefined, <<>>, NoFile))

SetWatchGlob(w) ==
    LET c == configs[ConfigOf(w)]
    IN  Done(w, setWatchGlob(c, Str("*.rc")), Mutated(hist[ConfigOf(w)]),
             Call("setWatchGlob", w, [glob |-> Str("*.rc")], Undefined, <<>>, NoFile))

ShouldRehydrate(w) ==
    Done(w, shouldRehydrate(configs[ConfigOf(w)]), Mutated(hist[ConfigOf(w)]),
         Call("shouldRehydrate", w, <<>>, Undefined, <<>>, NoFile))

ShouldReload(w) ==
    Done(w, shouldReload(configs[ConfigOf(w)]), Mutated(hist[ConfigOf(w)]),
         Call("shouldReload", w, <<>>, Undefined, <<>>, NoFile))

ShouldInvalidateOnStartup(w) ==
    Done(w, shouldInvalidateOnStartup(configs[ConfigOf(w)]), Mutated(hist[ConfigOf(w)]),
         Call("shouldInvalidateOnStartup", w, <<>>, Undefined, <<>>, NoFile))

\* a get call of wrapper w completes with the outcome r
Finish(w, op, args, options, r) ==
    Done(w, r.config, HistAfterGet(hist[ConfigOf(w)], r, options),
         Call(op, w, args, r.ret, r.lookups, r.found))

GetConfigFrom(w, paths, lists, opts) ==
    \E sp \in paths, fps \in lists, o \in opts :
        Finish(w, "getConfigFrom", [searchPath |-> sp, filePaths |-> fps, options |-> o], o,
               getConfigFrom(configs[ConfigOf(w)], fs, sp, fps, o))

GetConfig(w, lists, opts) ==
    \E fps \in lists, o \in opts :
        Finish(w, "getConfig",
               [searchPath |-> configs[ConfigOf(w)].searchPath, filePaths |-> fps,
                options |-> o],
               o, getConfig(configs[ConfigOf(w)], fs, fps, o))

GetPackage(w) ==
    Finish(w, "getPackage", <<>>, Undefined, getPackage(configs[ConfigOf(w)], fs))

\* the wrappers a caller can hold
Live == {w \in 1..Len(wrappers) : wrappers[w].config /= 0}

\* the calls that resolve configuration, from states the two recording setters vary
Next ==
    \/ \E w \in Live : SetResolvedPath(w, PathArgs)
    \/ \E w \in Live : AddIncludedFile(w, {Path(Src, <<"extra", ".json">>)})
    \/ \E w \in Live : GetConfigFrom(w, SearchPaths, FilePathLists, OptionValues)
    \/ \E w \in Live : GetConfig(w, FilePathLists, OptionValues)
    \/ \E w \in Live : GetPackage(w)

Spec == Init /\ [][Next]_vars

\* every public method, on two of the file systems
InitAll ==
    /\ fs \in {f \in FileSystems : Path(App, Babelrc) \in DOMAIN f}
    /\ configs = [i \in ConfigIds |-> NewConfig(Path(Src, IndexJsx), TRUE)]
    /\ InitOneWrapper

NextAll ==
    \/ \E w \in Live : SetResolvedPath(w, PathArgs)
    \/ \E w \in Live : SetResult(w)
    \/ \E w \in Live : SetResultHash(w)
    \/ \E w \in Live : AddIncludedFile(w, PathArgs)
    \/ \E w \in Live : AddDevDependency(w)
    \/ \E w \in Live : SetWatchGlob(w)
    \/ \E w \in Live : ShouldRehydrate(w)
    \/ \E w \in Live : ShouldReload(w)
    \/ \E w \in Live : ShouldInvalidateOnStartup(w)
    \/ \E w \in Live : GetConfigFrom(w, SearchPaths, {<<MyPackageJson, Babelrc, BabelConfigJs>>},
                        {Undefined, Options(Str("babel"), Undefined, Undefined)})
    \/ \E w \in Live : GetConfig(w, {<<MyPackageJson, Babelrc, BabelConfigJs>>},
                        {Undefined, Options(Str("babel"), Undefined, Undefined)})
    \/ \E w \in Live : GetPackage(w)

SpecAll == InitAll /\ [][NextAll]_vars

\* getJSXOptions, over package descriptors that name the libraries in every way
Modes == {"development", "production"}

FinishJSX(w, mode, r) ==
    Done(w, r.config, HistAfterGet(hist[ConfigOf(w)], r, Undefined),
         Call("getJSXOptions", w, [mode |-> mode, packageCalls |-> r.packageCalls],
              r.ret, r.lookups, NoFile))

GetJSXOptions(w) ==
    \E mode \in Modes :
        FinishJSX(w, mode, getJSXOptions(mode, configs[ConfigOf(w)], fs))

Libs == {JSX_PRAGMA[i].lib : i \in 1..Len(JSX_PRAGMA)}

\* the library sets a dependencies / devDependencies section may hold
LibSets == {{}, {"react"}, {"preact"}, {"nervjs"}, {"hyperapp"}, {"nervjs", "hyperapp"}}

Section(libs) == Obj([l \in libs \cup {"lodash"} |-> Str("^1.0.0")])

Sections ==
    {Undefined} \cup {Section(libs) : libs \in LibSets}
    \cup {Obj([l \in {"react", "hyperapp"} |-> IF l = "react" THEN Str("") ELSE Str("^2.0.0")])}

Aliases ==
    { Undefined,
      Obj([react |-> Str("preact/compat")]),
      Obj([lodash |-> Str("lodash-es")]),
      Obj([react |-> Str("")]) }

JSXPackages ==
    { Obj([name |-> Str("app"), alias |-> a, dependencies |-> d, devDependencies |-> dd]) :
        a \in Aliases, d \in Sections, dd \in Sections }

JSXFileSystems ==
    {(Path(App, PackageJson) :> PkgFile(pkg)) : pkg \in JSXPackages}
    \cup {(Path(App, Babelrc) :> RcFile)}

InitJSX ==
    /\ fs \in JSXFileSystems
    /\ \E name \in {IndexJsx, IndexTsx, IndexJs}, isSource \in BOOLEAN :
          configs = [i \in ConfigIds |-> NewConfig(Path(Src, name), isSource)]
    /\ InitOneWrapper

NextJSX ==
    \/ \E w \in Live : GetJSXOptions(w)
    \/ \E w \in Live : GetPackage(w)

SpecJSX == InitJSX /\ [][NextJSX]_vars

\* the construction of wrappers over several Configs and options objects, and calls
\* made through the wrappers
Construct(config, options) ==
    LET r == constructor(wrappers, table, config, options)
    IN  /\ Len(wrappers) < MaxConstructions
        /\ wrappers' = r.wrappers
        /\ table' = r.table
        /\ last' = Call("new", r.ret, [config |-> config, options |-> options],
                        r.ret, <<>>, NoFile)
        /\ UNCHANGED <<fs, configs, tasks, hist, nops>>

InitWrappers ==
    /\ fs \in {f \in FileSystems : DOMAIN f = {Path(App, Babelrc)}}
    /\ configs = [i \in ConfigIds |-> NewConfig(Path(Src, IndexJsx), TRUE)]
    /\ wrappers = <<>>
    /\ table = [o \in OptionIds |-> [c \in ConfigIds |-> 0]]
    /\ tasks = <<>>
    /\ last = NoCall
    /\ hist = [i \in ConfigIds |-> NoHist]
    /\ nops = 0

NextWrappers ==
    \/ \E c \in ConfigIds, o \in OptionIds : Construct(c, o)
    \/ \E w \in Live : SetResult(w)
    \/ \E w \in Live : ShouldReload(w)

SpecWrappers == InitWrappers /\ [][NextWrappers]_vars

-----------------------------------------------------------------------------
(* getPackage and getConfigFrom as the asynchronous functions they are: a  *)
(* call runs up to its first `await` when it is made, and each later       *)
(* stretch between two awaits runs when what it awaited has settled. Calls *)
(* on one Config interleave at their awaits.                               *)
(*                                                                         *)
(*   pkgLoading   getPackage -> getConfig(['package.json']): loadConfig in *)
(*                flight (Config.js 152, 112)                              *)
(*   pkgLoaded    that getConfig has returned `val`; the assignment of     *)
(*                #config.pkg is pending (Config.js 152)                   *)
(*   pkgReturned  getPackage has returned `val` to getConfigFrom, whose    *)
(*                test of the descriptor is pending (Config.js 105-106)    *)
(*   loading      loadConfig for the candidate files in flight (112)       *)
(*   done         the promise has resolved to `val`                        *)

Task(kind, pc, w, searchPath, filePaths, options, val) ==
    [kind |-> kind, pc |-> pc, w |-> w, searchPath |-> searchPath,
     filePaths |-> filePaths, options |-> options, val |-> val]

\* Config.js 147-152, up to the await: the memoized descriptor, or a lookup started
enterGetPackage(c, t) ==
    IF Truthy(c.pkg)
    THEN [t EXCEPT !.pc = IF t.kind = "getPackage" THEN "done" ELSE "pkgReturned",
                   !.val = c.pkg]
    ELSE [t EXCEPT !.pc = "pkgLoading"]

\* Config.js 103-112, up to the first await
enterGetConfigFrom(c, t) ==
    IF ~IsNullish(packageKeyOf(t.options))
    THEN enterGetPackage(c, t)
    ELSE [t EXCEPT !.pc = "loading"]

Begin(w, t) ==
    /\ Len(tasks) < MaxTasks
    /\ tasks' = Append(tasks, t)
    /\ hist' = [hist EXCEPT ![ConfigOf(w)].pkgLookups =
                    @ + (IF t.pc = "pkgLoading" THEN 1 ELSE 0)]
    /\ UNCHANGED <<fs, configs, wrappers, table, last, nops>>

StartGetPackage(w) ==
    Begin(w, enterGetPackage(configs[ConfigOf(w)],
                             Task("getPackage", "start", w, configs[ConfigOf(w)].searchPath,
                                  <<PackageJson>>, Undefined, Undefined)))

StartGetConfig(w, lists, opts) ==
    \E fps \in lists, o \in opts :
        Begin(w, enterGetConfigFrom(configs[ConfigOf(w)],
                                    Task("getConfigFrom", "start", w,
                                         configs[ConfigOf(w)].searchPath, fps, o, Undefined)))

\* a stretch of task i runs: the Config becomes r.config, the task t2
Resume(i, c2, t2) ==
    /\ configs' = [configs EXCEPT ![ConfigOf(tasks[i].w)] = c2]
    /\ tasks' = [tasks EXCEPT ![i] = t2]
    /\ UNCHANGED <<fs, wrappers, table, last, hist, nops>>

Recorded1(i, r, pc) == Resume(i, r.config, [tasks[i] EXCEPT !.pc = pc, !.val = r.ret])

\* Config.js 112-133 inside getPackage's getConfig: the lookup of package.json
\* settles, the file is recorded, getConfig returns
PkgLoadResolve(i) ==
    /\ tasks[i].pc = "pkgLoading"
    /\ Recorded1(i, recordConf(configs[ConfigOf(tasks[i].w)],
                               loadConfig(fs, configs[ConfigOf(tasks[i].w)].searchPath,
                                          <<PackageJson>>, Null),
                               Undefined),
                 "pkgLoaded")

\* Config.js 152-153: `this.#config.pkg = <awaited>; return this.#config.pkg`
PkgAssign(i) ==
    /\ tasks[i].pc = "pkgLoaded"
    /\ Resume(i, [configs[ConfigOf(tasks[i].w)] EXCEPT !.pkg = tasks[i].val],
              [tasks[i] EXCEPT !.pc = IF tasks[i].kind = "getPackage"
                                      THEN "done" ELSE "pkgReturned"])

\* Config.js 105-112: the awaited descriptor is tested; a hit returns its value,
\* a miss starts the lookup of the candidate files
AfterPackage(i) ==
    /\ tasks[i].pc = "pkgReturned"
    /\ Resume(i, configs[ConfigOf(tasks[i].w)],
              IF PackageHit(tasks[i].val, tasks[i].options.packageKey)
              THEN [tasks[i] EXCEPT !.pc = "done",
                                    !.val = Get(tasks[i].val, tasks[i].options.packageKey.s)]
              ELSE [tasks[i] EXCEPT !.pc = "loading"])

\* Config.js 112-133: the lookup of the candidate files settles
LoadResolve(i) ==
    /\ tasks[i].pc = "loading"
    /\ Recorded1(i, recordConf(configs[ConfigOf(tasks[i].w)],
                               loadConfig(fs, tasks[i].searchPath, tasks[i].filePaths,
                                          loadOpts(tasks[i].options)),
                               tasks[i].options),
                 "done")

InitAsync ==
    /\ fs \in FileSystems
    /\ configs = [i \in ConfigIds |-> NewConfig(Path(Src, IndexJsx), TRUE)]
    /\ InitOneWrapper

NextAsync ==
    \/ \E w \in Live : StartGetPackage(w)
    \/ \E w \in Live : StartGetConfig(w, FilePathLists,
                        {Undefined, Options(Str("babel"), Undefined, Undefined),
                         Options(Str("babel"), Undefined, Bool(TRUE))})
    \/ \E i \in 1..Len(tasks) : PkgLoadResolve(i)
    \/ \E i \in 1..Len(tasks) : PkgAssign(i)
    \/ \E i \in 1..Len(tasks) : AfterPackage(i)
    \/ \E i \in 1..Len(tasks) : LoadResolve(i)

SpecAsync == InitAsync /\ [][NextAsync]_vars

-----------------------------------------------------------------------------
(* Notions the properties are stated with.                                 *)

Cid == ConfigOf(1)

IsGet(call) == call.op \in {"getConfig", "getConfigFrom"}

HasPackageKey(call) ==
    /\ ~IsNullish(call.args.options)
    /\ ~IsNullish(call.args.options.packageKey)

IsExcluded(call) ==
    /\ ~IsNullish(call.args.options)
    /\ Truthy(call.args.options.exclude)

\* the nearest package descriptor of the Config, as found on the file system
NearestPackageFile(c) == Resolved(fs, c.searchPath, <<PackageJson>>)

NearestPackage(c) ==
    IF NearestPackageFile(c) = NoFile THEN Null
    ELSE fs[NearestPackageFile(c)].value

ContainsKey(v, k) == v.t = "object" /\ k \in DOMAIN v.o

OnlyPackageLookups(call) ==
    \A i \in 1..Len(call.lookups) : IsPackageLookup(call.lookups[i])

\* the files recorded on a Config
Recorded(c) == c.includedFiles \cup (IF IsNullish(c.resolvedPath) THEN {} ELSE {c.resolvedPath})

\* a first (primary) config source is still to be recorded
NoPrimaryYet(c) == IsNullish(c.resolvedPath) \/ EndsWith(c.resolvedPath.name, PackageJson)

-----------------------------------------------------------------------------
\* C1 (as stated): whenever the nearest package descriptor contains the key K, a
\* getConfig/getConfigFrom call with packageKey K returns the descriptor's value
\* under K and looks up nothing but package.json.
C1_Original ==
    (/\ IsGet(last)
     /\ HasPackageKey(last)
     /\ ContainsKey(NearestPackage(configs[Cid]), last.args.options.packageKey.s))
    => /\ last.ret = Get(NearestPackage(configs[Cid]), last.args.options.packageKey.s)
       /\ OnlyPackageLookups(last)
       /\ Len(last.lookups) <= 1

\* C1 (amended): whenever the nearest package descriptor holds a truthy value under
\* the key K, a getConfig/getConfigFrom call with packageKey K returns that value
\* and looks up nothing but package.json, at most once.
C1_PackageKeyShortCircuit ==
    (/\ IsGet(last)
     /\ HasPackageKey(last)
     /\ Truthy(Get(NearestPackage(configs[Cid]), last.args.options.packageKey.s)))
    => /\ last.ret = Get(NearestPackage(configs[Cid]), last.args.options.packageKey.s)
       /\ OnlyPackageLookups(last)
       /\ Len(last.lookups) <= 1
       /\ last.found = NoFile

\* a call with a packageKey, candidates other than package.json that exist, answered
\* from the descriptor after one lookup of package.json
C1_Witness ==
    /\ IsGet(last)
    /\ HasPackageKey(last)
    /\ last.args.filePaths /= <<PackageJson>>
    /\ Resolved(fs, last.args.searchPath, last.args.filePaths) /= NoFile
    /\ last.ret = BabelObj
    /\ Len(last.lookups) = 1

-----------------------------------------------------------------------------
\* C2: a getConfig/getConfigFrom call without exclude whose search finds the file F
\* makes F the resolvedPath, leaving includedFiles alone, when no primary source was
\* recorded (resolvedPath unset or ending in package.json); otherwise it leaves
\* resolvedPath alone and adds F to includedFiles. It returns the config of F.
C2_Step ==
    (/\ IsGet(last')
     /\ ~IsExcluded(last')
     /\ last'.found /= NoFile)
    => LET c  == configs[Cid]
           c2 == configs'[Cid]
           F  == last'.found
           a  == last'.args
           parse == IF IsNullish(a.options) THEN Undefined ELSE a.options.parse
       IN  /\ NoPrimaryYet(c) =>
                /\ c2.resolvedPath = F
                /\ c2.includedFiles = c.includedFiles
           /\ ~NoPrimaryYet(c) =>
                /\ c2.resolvedPath = c.resolvedPath
                /\ F \in c2.includedFiles
                /\ c.includedFiles \subseteq c2.includedFiles
           /\ last'.ret = loadConfig(fs, a.searchPath, a.filePaths,
                                     IF IsNullish(parse) THEN Null
                                     ELSE [t |-> "object", parse |-> parse]).config

\* C2: every call satisfies the above: the resolving file becomes resolvedPath or an
\* included file, by whether a primary source was recorded, and its config is returned
C2_RecordsResolvingFile == [][C2_Step]_vars

\* a search that found a second file after a primary source other than a package
\* descriptor was recorded: the file went to includedFiles
C2_Witness ==
    /\ IsGet(last)
    /\ ~IsExcluded(last)
    /\ last.found /= NoFile
    /\ last.found \in configs[Cid].includedFiles
    /\ configs[Cid].resolvedPath /= last.found
    /\ hist[Cid].explicit = {}

-----------------------------------------------------------------------------
\* C3 (as stated): after get calls made without exclude only, every file they
\* resolved and loaded is the resolvedPath or an included file, and nothing else is
\* recorded.
C3_Original ==
    hist[Cid].getsOnly =>
        /\ hist[Cid].consulted \subseteq Recorded(configs[Cid])
        /\ Recorded(configs[Cid]) \subseteq hist[Cid].consulted

-----------------------------------------------------------------------------
\* C4 (as stated): of two getPackage calls made one after the other, at most one
\* searches for the descriptor, the second returns what the first returned, and the
\* second changes neither resolvedPath nor includedFiles.
C4_OriginalStep ==
    (last.op = "getPackage" /\ last'.op = "getPackage")
    => /\ Len(last.lookups) + Len(last'.lookups) <= 1
       /\ last'.ret = last.ret
       /\ configs'[Cid].resolvedPath = configs[Cid].resolvedPath
       /\ configs'[Cid].includedFiles = configs[Cid].includedFiles

\* C4 (as stated), of every two consecutive getPackage calls: one search at most,
\* the same value, nothing recorded by the second
C4_Original == [][C4_OriginalStep]_vars

\* C4 (amended): of two getPackage calls made one after the other, the second
\* returns what the first returned and changes neither resolvedPath nor
\* includedFiles; it searches for the descriptor exactly when the first returned a
\* falsy value (no descriptor found).
C4_Step ==
    (last.op = "getPackage" /\ last'.op = "getPackage")
    => /\ last'.ret = last.ret
       /\ configs'[Cid].resolvedPath = configs[Cid].resolvedPath
       /\ configs'[Cid].includedFiles = configs[Cid].includedFiles
       /\ Truthy(last.ret) => last'.lookups = <<>>
       /\ ~Truthy(last.ret) => Len(last'.lookups) = 1 /\ OnlyPackageLookups(last')

\* C4 (amended), of every two consecutive getPackage calls: the same value, nothing
\* recorded by the second, and a second search exactly when the first found nothing
C4_GetPackageMemoized == [][C4_Step]_vars

\* a second getPackage call answered from the memo, after a first that searched
C4_Witness ==
    /\ last.op = "getPackage"
    /\ last.lookups = <<>>
    /\ Truthy(last.ret)
    /\ hist[Cid].pkgLookups = 1
    /\ nops >= 2

-----------------------------------------------------------------------------
\* C8 (as stated): a getConfig/getConfigFrom call with exclude set changes neither
\* resolvedPath nor includedFiles.
C8_OriginalStep ==
    (IsGet(last') /\ IsExcluded(last'))
    => /\ configs'[Cid].resolvedPath = configs[Cid].resolvedPath
       /\ configs'[Cid].includedFiles = configs[Cid].includedFiles

\* C8 (as stated), of every call: with exclude set, resolvedPath and includedFiles
\* stay as they were
C8_Original == [][C8_OriginalStep]_vars

\* C8 (amended): a getConfig/getConfigFrom call with exclude set never records the
\* candidate file it resolves. It changes neither resolvedPath nor includedFiles,
\* except that with a packageKey and no descriptor memoized yet the descriptor file
\* that getPackage loads is recorded: as resolvedPath when no primary source was
\* recorded, in includedFiles otherwise.
C8_Step ==
    (IsGet(last') /\ IsExcluded(last'))
    => LET c  == configs[Cid]
           c2 == configs'[Cid]
           P  == NearestPackageFile(c)
           loads == P /= NoFile /\ fs[P].text /= ""
       IN  IF HasPackageKey(last') /\ ~Truthy(c.pkg) /\ loads
           THEN IF NoPrimaryYet(c)
                THEN c2.resolvedPath = P /\ c2.includedFiles = c.includedFiles
                ELSE c2.resolvedPath = c.resolvedPath
                     /\ c2.includedFiles = c.includedFiles \cup {P}
           ELSE c2.resolvedPath = c.resolvedPath /\ c2.includedFiles = c.includedFiles

\* C8 (amended), of every call: with exclude set the candidate file is not recorded;
\* only the descriptor file loaded by getPackage may be
C8_ExcludeRecordsNoCandidate == [][C8_Step]_vars

\* an excluding call whose search resolved a candidate file that is recorded nowhere
C8_Witness ==
    /\ IsGet(last)
    /\ IsExcluded(last)
    /\ last.found /= NoFile
    /\ last.found \notin Recorded(configs[Cid])

-----------------------------------------------------------------------------
\* C5: shouldRehydrate(), shouldReload() and shouldInvalidateOnStartup() each set
\* exactly their own flag and change nothing else of the Config, and no public
\* method ever makes a flag that is true false again.
C5_Step ==
    LET c  == configs[Cid]
        c2 == configs'[Cid]
    IN  /\ c.shouldRehydrate => c2.shouldRehydrate
        /\ c.shouldReload => c2.shouldReload
        /\ c.shouldInvalidateOnStartup => c2.shouldInvalidateOnStartup
        /\ last'.op = "shouldRehydrate" => c2 = [c EXCEPT !.shouldRehydrate = TRUE]
        /\ last'.op = "shouldReload" => c2 = [c EXCEPT !.shouldReload = TRUE]
        /\ last'.op = "shouldInvalidateOnStartup" =>
               c2 = [c EXCEPT !.shouldInvalidateOnStartup = TRUE]

\* C5, of every call: each flag method sets its own flag only, and no call clears a
\* flag
C5_FlagsOneWay == [][C5_Step]_vars

\* one flag was set, the other two were not, and a later call to another method left
\* it set
C5_Witness ==
    /\ configs[Cid].shouldReload
    /\ ~configs[Cid].shouldRehydrate
    /\ ~configs[Cid].shouldInvalidateOnStartup
    /\ last.op \in {"getConfig", "setResult", "getPackage"}

-----------------------------------------------------------------------------
\* the version given in the most recent addDevDependency call for `name`
LatestVersion(calls, name) ==
    LET at == {i \in 1..Len(calls) : calls[i].name = name}
    IN  calls[CHOOSE i \in at : \A j \in at : j <= i].version

NamesOf(entries) == {entries[i].name : i \in 1..Len(entries)}

\* C6: includedFiles holds every path ever passed to addIncludedFile; devDeps holds
\* exactly one entry for every name ever passed to addDevDependency, carrying the
\* version of the most recent call for that name (undefined when none was given);
\* and no public method removes an included file or a dev-dependency entry.
C6_Step ==
    LET c  == configs[Cid]
        c2 == configs'[Cid]
        h2 == hist'[Cid]
    IN  /\ h2.included \subseteq c2.includedFiles
        /\ NamesOf(h2.devDeps) = NamesOf(c2.devDeps)
        /\ \A i \in 1..Len(c2.devDeps) :
              /\ c2.devDeps[i].version = LatestVersion(h2.devDeps, c2.devDeps[i].name)
              /\ \A j \in 1..Len(c2.devDeps) :
                    c2.devDeps[j].name = c2.devDeps[i].name => j = i
        /\ c.includedFiles \subseteq c2.includedFiles
        /\ NamesOf(c.devDeps) \subseteq NamesOf(c2.devDeps)

\* C6, of every call: includedFiles and devDeps hold all that was added, devDeps with
\* the latest version per name, and nothing is removed
C6_AccumulatorsOnlyGrow == [][C6_Step]_vars

\* a name was given twice with different versions, the later one absent, and a path
\* was included
C6_Witness ==
    /\ Len(hist[Cid].devDeps) = 2
    /\ hist[Cid].devDeps[1].name = hist[Cid].devDeps[2].name
    /\ hist[Cid].devDeps[1].version = Str("^1.0.0")
    /\ hist[Cid].devDeps[2].version = Undefined
    /\ Len(configs[Cid].devDeps) = 1
    /\ hist[Cid].included /= {}

-----------------------------------------------------------------------------
\* C7: constructing PublicConfig(config, options) returns the wrapper registered for
\* (options, config) when one was constructed before, and otherwise a new wrapper,
\* distinct from every other, which it registers; so each (options, config) pair
\* has one wrapper, and different pairs have different wrappers.
C7_Step ==
    /\ last'.op = "new" =>
          LET c == last'.args.config
              o == last'.args.options
              r == last'.ret
          IN  /\ table[o][c] /= 0 => r = table[o][c] /\ table' = table
              /\ table[o][c] = 0 =>
                    /\ r \notin 1..Len(wrappers)
                    /\ table' = [table EXCEPT ![o][c] = r]
              /\ wrappers'[r] = [config |-> c, options |-> o]
              /\ \A w \in 1..Len(wrappers) : wrappers'[w] = wrappers[w]
              /\ configs' = configs
    /\ \A o1 \in OptionIds, o2 \in OptionIds, c1 \in ConfigIds, c2 \in ConfigIds :
          (table'[o1][c1] /= 0 /\ table'[o1][c1] = table'[o2][c2]) => (o1 = o2 /\ c1 = c2)
    /\ \A w \in 1..Len(wrappers') :
          wrappers'[w].config /= 0 => table'[wrappers'[w].options][wrappers'[w].config] = w

\* C7, of every construction: the registered wrapper of the pair is returned, a new
\* one only for a pair that has none, and no two pairs share a wrapper
C7_OneWrapperPerPair == [][C7_Step]_vars

\* a second construction for a pair returned the wrapper of the first, after a call
\* through that wrapper had changed the Config, while another pair has its own wrapper
C7_Witness ==
    /\ last.op = "new"
    /\ last.ret < Len(wrappers)
    /\ configs[last.args.config].result /= Undefined
    /\ Cardinality(Live) = 2

-----------------------------------------------------------------------------
\* the library a descriptor names, by a test of what counts as naming it: an alias
\* for react, else the first of react, preact, nervjs, hyperapp in either section
NamedLib(pkg, Names(_, _)) ==
    IF Names(Get(pkg, "alias"), "react") THEN "react"
    ELSE IF \E l \in {"react"} : Names(Get(pkg, "dependencies"), l) \/ Names(Get(pkg, "devDependencies"), l)
         THEN "react"
    ELSE IF \E l \in {"preact"} : Names(Get(pkg, "dependencies"), l) \/ Names(Get(pkg, "devDependencies"), l)
         THEN "preact"
    ELSE IF \E l \in {"nervjs"} : Names(Get(pkg, "dependencies"), l) \/ Names(Get(pkg, "devDependencies"), l)
         THEN "nervjs"
    ELSE IF \E l \in {"hyperapp"} : Names(Get(pkg, "dependencies"), l) \/ Names(Get(pkg, "devDependencies"), l)
         THEN "hyperapp"
    ELSE NoLib

\* what getJSXOptions is to return for a source Config whose descriptor names `lib`
ExpectedJSX(c, lib, mode) ==
    IF lib /= NoLib \/ ExtName(c.searchPath) \in {".jsx", ".tsx"}
    THEN PresetConfig(
            CASE lib = "react"    -> Str("React.createElement")
              [] lib = "preact"   -> Str("h")
              [] lib = "nervjs"   -> Str("Nerv.createElement")
              [] lib = "hyperapp" -> Str("h")
              [] OTHER            -> Undefined,
            CASE lib = "react"    -> Str("React.Fragment")
              [] lib = "preact"   -> Str("Fragment")
              [] OTHER            -> Undefined,
            mode = "development")
    ELSE Undefined

JSXClaim(Names(_, _)) ==
    last.op = "getJSXOptions" =>
        LET c == configs[Cid]
        IN  IF ~c.isSource
            THEN last.ret = Null /\ last.args.packageCalls = 0 /\ last.lookups = <<>>
            ELSE last.ret = ExpectedJSX(c, NamedLib(NearestPackage(c), Names), last.args.mode)

\* C10 (as stated): a library counts as named when the alias / dependencies /
\* devDependencies object has an entry for it.
C10_Original ==
    LET Present(obj, k) == ContainsKey(obj, k)
    IN  JSXClaim(Present)

\* C10 (amended): getJSXOptions returns null without calling getPackage when the
\* Config is not source. Otherwise the library is react if alias.react is truthy,
\* else the first of react, preact, nervjs, hyperapp with a truthy (non-empty)
\* entry in dependencies or devDependencies; the preset config with that library's
\* pragma and pragmaFrag is returned exactly when a library was detected or the
\* extension of searchPath is .jsx or .tsx, and undefined otherwise.
C10_JSXOptions ==
    LET TruthyEntry(obj, k) == Truthy(Get(obj, k))
    IN  JSXClaim(TruthyEntry)

\* preact, named in devDependencies only while dependencies names hyperapp, decided
\* the pragma of a .js source file
C10_Witness ==
    /\ last.op = "getJSXOptions"
    /\ configs[Cid].isSource
    /\ ExtName(configs[Cid].searchPath) = ".js"
    /\ last.ret = PresetConfig(Str("h"), Str("Fragment"), TRUE)
    /\ ContainsKey(Get(NearestPackage(configs[Cid]), "dependencies"), "hyperapp")
    /\ ~ContainsKey(Get(NearestPackage(configs[Cid]), "dependencies"), "preact")

-----------------------------------------------------------------------------
\* the calls of `ts`, run one after another in the order `order` from the Config c
RECURSIVE Serial(_, _, _)
Serial(c, ts, order) ==
    IF order = <<>> THEN c
    ELSE LET t == ts[Head(order)]
         IN  Serial(IF t.kind = "getPackage"
                    THEN getPackage(c, fs).config
                    ELSE getConfigFrom(c, fs, t.searchPath, t.filePaths, t.options).config,
                    ts, Tail(order))

Orders(n) == {o \in [1..n -> 1..n] : \A i \in 1..n, j \in 1..n : o[i] = o[j] => i = j}

UsesPackage(t) == t.kind = "getPackage" \/ ~IsNullish(packageKeyOf(t.options))

AllDone == \A i \in 1..Len(tasks) : tasks[i].pc = "done"

\* C9 (as stated): when two or more calls that fetch the package descriptor have
\* overlapped on one Config that has a descriptor, the descriptor was looked up
\* once only, and resolvedPath and includedFiles are what running the calls one
\* after another, in some order, would have left.
C9_Original ==
    (/\ Len(tasks) >= 2
     /\ AllDone
     /\ \A i \in 1..Len(tasks) : UsesPackage(tasks[i])
     /\ Truthy(NearestPackage(configs[Cid])))
    => /\ hist[Cid].pkgLookups <= 1
       /\ \E o \in Orders(Len(tasks)) :
             LET s == Serial(NewConfig(configs[Cid].searchPath, configs[Cid].isSource),
                             tasks, o)
             IN  /\ s.resolvedPath = configs[Cid].resolvedPath
                 /\ s.includedFiles = configs[Cid].includedFiles

\* the second half of C9 alone: the files recorded after overlapping calls are those
\* some serial order records
C9_SerialRecording ==
    (/\ Len(tasks) >= 2
     /\ AllDone
     /\ \A i \in 1..Len(tasks) : UsesPackage(tasks[i])
     /\ Truthy(NearestPackage(configs[Cid])))
    => \E o \in Orders(Len(tasks)) :
          LET s == Serial(NewConfig(configs[Cid].searchPath, configs[Cid].isSource),
                          tasks, o)
          IN  /\ s.resolvedPath = configs[Cid].resolvedPath
              /\ s.includedFiles = configs[Cid].includedFiles

\* a call that nothing overlaps leaves what the run-to-completion form leaves
AloneIsSerial ==
    (Len(tasks) = 1 /\ AllDone) =>
        configs[Cid] = Serial(NewConfig(configs[Cid].searchPath, configs[Cid].isSource),
                              tasks, <<1>>)

====
